---- MODULE Spec2Model ----
(***************************************************************************)
(* The GitHub data-access layer of the project board: the in-memory TTL    *)
(* cache, the REST and GraphQL transports, the per-type fetchers and the   *)
(* aggregator fetchAllItems.                                               *)
(*                                                                         *)
(* Strings that the code inspects character by character (logins, GraphQL  *)
(* node ids, base64 content) are sequences of character codes; strings it  *)
(* only compares or concatenates (repository names, item types) are TLA+   *)
(* strings.  One organization is fetched, so the organization name is left *)
(* out of endpoints.                                                       *)
(***************************************************************************)
EXTENDS Integers, Sequences, FiniteSets, TLC

VARIABLES
  config,    \* the imported configuration object (read-only)
  cache,     \* Map<string, CacheEntry>: a function whose domain is the keys present
  now,       \* Date.now()
  ticks,     \* number of clock advances so far
  pc,        \* "idle" | "call" | "wait" | "done": position of the running public call
  fn,        \* the public function that was called
  opts,      \* its arguments
  stage,     \* the fetcher now running: "issues" | "prs" | "repos" | "discussions" | "org" | "readme"
  repos,     \* the repository list of the running per-repository loop (<<>> on the search path)
  idx,       \* 1-based position of the loop in repos
  acc,       \* allIssues / allPRs / allDiscussions of the running fetcher
  items,     \* items of fetchAllItems
  inflight,  \* HTTP requests issued and not yet answered (cache keys, in issue order)
  httpLog,   \* every HTTP request issued by the running call, in order
  served,    \* every finished transport call of the running call: key, cache hit or
             \* response status, what it threw or returned
  result,    \* what the public call returned: [threw, value]
  op         \* the last cache/transport operation, for the cache and transport specifications

vars == <<config, cache, now, ticks, pc, fn, opts, stage, repos, idx, acc,
          items, inflight, httpLog, served, result, op>>

(***************************************************************************)
(* Program constants and model bounds                                      *)
(***************************************************************************)
CACHE_TTL == 300000

\* clock advances per behaviour
MaxTicks == 2

\* the clock advances by 1 ms or by exactly one TTL
TickSteps == {1, CACHE_TTL}

(***************************************************************************)
(* JSON values.  Every value has the same shape: t is the JSON type and    *)
(* elems the elements of an array, of an object's items / nodes member, or *)
(* the characters of a README's content.                                   *)
(*   "null"     null (falsy)                                               *)
(*   "array"    [ ...elems ]                                               *)
(*   "object"   { items: elems } / { repository: { discussions: { nodes }}}*)
(*   "noitems"  an object without the member the caller reads              *)
(*   "base64", "utf8"   a README payload with that encoding                *)
(***************************************************************************)
JNull == [t |-> "null", elems |-> <<>>]
JArray(s) == [t |-> "array", elems |-> s]
JObject(s) == [t |-> "object", elems |-> s]
JNoItems == [t |-> "noitems", elems |-> <<>>]
JReadme(enc, s) == [t |-> enc, elems |-> s]

\* JavaScript truthiness of a JSON value: only null is falsy among the values above
\* (arrays and objects are truthy even when empty)
Truthy(v) == v.t # "null"

(***************************************************************************)
(* The cache (part_001 lines 17-44)                                        *)
(***************************************************************************)
CacheEntry(data, timestamp) == [data |-> data, timestamp |-> timestamp]

\* getCached with the expiry test off by one (>= for >)
getCached_boundary(c, key, t) ==
  IF key \notin DOMAIN c
  THEN [data |-> JNull, cache |-> c]
  ELSE IF t - c[key].timestamp >= CACHE_TTL
       THEN [data |-> JNull, cache |-> [k \in (DOMAIN c) \ {key} |-> c[k]]]
       ELSE [data |-> c[key].data, cache |-> c]

\* getCached(key) at time t on cache c: the value returned (null when absent or
\* expired) and the cache afterwards (the expired entry deleted)
getCached(c, key, t) ==
  IF key \notin DOMAIN c
  THEN [data |-> JNull, cache |-> c]
  ELSE IF t - c[key].timestamp > CACHE_TTL
       THEN [data |-> JNull, cache |-> [k \in (DOMAIN c) \ {key} |-> c[k]]]
       ELSE [data |-> c[key].data, cache |-> c]

\* setCache that keeps the entry already stored under the key
setCache_keepFirst(c, key, data, t) ==
  [k \in (DOMAIN c) \cup {key} |->
     IF k = key /\ k \notin DOMAIN c THEN CacheEntry(data, t) ELSE c[k]]

\* setCache(key, data) at time t
setCache(c, key, data, t) ==
  [k \in (DOMAIN c) \cup {key} |-> IF k = key THEN CacheEntry(data, t) ELSE c[k]]

EmptyCache == [k \in {} |-> JNull]

(***************************************************************************)
(* Cache keys and endpoints (part_001 lines 95, 127, 249, 278, 309, 335,   *)
(* 417, 469, 532, 544).  An endpoint is its path template, the repository  *)
(* in it and the state parameter or qualifier in its query string.         *)
(***************************************************************************)
Endpoint(path, repo, state) == [path |-> path, repo |-> repo, state |-> state]

\* `rest:${endpoint}`
RestKey(endpoint) ==
  [api |-> "rest", path |-> endpoint.path, repo |-> endpoint.repo, state |-> endpoint.state]

\* `graphql:${query}:${JSON.stringify(variables)}`: the query text is fixed, the
\* variables are {owner, repo}
GraphQLKey(repo) ==
  [api |-> "graphql", path |-> "discussions", repo |-> repo, state |-> ""]

\* state === 'all' ? 'all' : state
StateParam(state) == IF state = "all" THEN "all" ELSE state

\* state === 'all' ? '' : `is:${state}` (the key keeps the state named by the qualifier)
StateQuery(state) == IF state = "all" THEN "" ELSE state

(***************************************************************************)
(* Character-level helpers                                                 *)
(***************************************************************************)
\* String.prototype.toLowerCase on character codes: 'A'..'Z' -> 'a'..'z'
toLowerCase(s) == [i \in 1..Len(s) |-> IF s[i] >= 65 /\ s[i] <= 90 THEN s[i] + 32 ELSE s[i]]

IsDigit(c) == c >= 48 /\ c <= 57

\* parseInt(id.replace(/\D/g, '')) || 0 : the decimal value of the digits of id, 0 when
\* there is none
RECURSIVE DigitsValue(_, _)
DigitsValue(s, soFar) ==
  IF s = <<>> THEN soFar
  ELSE IF IsDigit(Head(s)) THEN DigitsValue(Tail(s), soFar * 10 + (Head(s) - 48))
       ELSE DigitsValue(Tail(s), soFar)

parseDiscussionId(id) == DigitsValue(id, 0)

\* new Date(iso).getTime() for a calendar date <<year, month, day>>, counted in days
\* of a 31-day-month calendar (order-preserving, which is all the comparator reads)
DateGetTime(iso) == (iso[1] * 12 + (iso[2] - 1)) * 31 + iso[3]

MapSeq(s, F(_)) == [i \in 1..Len(s) |-> F(s[i])]

Last(s) == s[Len(s)]

STR_unknown == <<117, 110, 107, 110, 111, 119, 110>>
STR_bot == <<98, 111, 116>>
STR_Bot == <<66, 111, 116>>
STR_BOT == <<66, 79, 84>>
STR_al == <<97, 108>>

(***************************************************************************)
(* Upstream payloads.  A raw entry has the members the code reads of a     *)
(* REST issue / pull (id, state, updated_at, user.login, pull_request,     *)
(* repository_url, repository.name) and of a GraphQL discussion node       *)
(* (node_id for its id, closed, author login in login, updated_at).        *)
(* login = <<>> is an absent user / author.                                *)
(***************************************************************************)
Raw(id, node_id, login, updated_at, pull_request, repository_url, closed) ==
  [id |-> id, node_id |-> node_id, login |-> login, updated_at |-> updated_at,
   pull_request |-> pull_request, repository_url |-> repository_url,
   repository |-> "", state |-> IF closed THEN "closed" ELSE "open", closed |-> closed]

E1 == Raw(101, <<68, 95, 49>>, STR_bot, <<2024, 1, 1>>, FALSE, <<"repos", "o", "a">>, FALSE)
E2 == Raw(102, <<68, 50, 95, 51>>, STR_Bot, <<2024, 2, 1>>, TRUE, <<"repos", "o", "a">>, FALSE)
E3 == Raw(103, <<68, 95>>, STR_al, <<2024, 1, 1>>, FALSE, <<"repos", "o", "b">>, FALSE)
E4 == Raw(104, <<52>>, <<>>, <<2023, 12, 15>>, FALSE, <<>>, TRUE)

RawEntries == {E1, E2, E3, E4}

\* the lists an upstream list / search / discussions response can carry
Lists == {<<E1, E2>>, <<E4, E3, E2>>}

\* the names a repository search can return (an entry without a name is "")
NameLists == {<<"b", "", "a">>, <<"c">>}

\* README contents as base64 characters: 'S' 'G' '\n' 'k' '=' decodes to "Hi";
\* '!' is not a base64 character
ReadmeBodies ==
  { JReadme("base64", <<83, 71, 10, 107, 61>>),
    JReadme("base64", <<83, 33, 107, 61>>),
    JReadme("utf8", <<72, 105>>) }

\* the bodies a 2xx response to the request under `key` can carry
OkBodies(key) ==
  CASE key.path \in {"issues", "pulls"} -> {JArray(l) : l \in Lists} \cup {JNull}
    [] key.path \in {"search:issue", "search:pr"} ->
         {JObject(l) : l \in Lists} \cup {JNoItems, JNull}
    [] key.path = "discussions" -> {JObject(<<E4, E3, E2>>), JNoItems, JNull}
    [] key.path = "search/repositories" -> {JObject(l) : l \in NameLists} \cup {JNoItems}
    [] key.path = "orgs" -> {JObject(<<>>), JNull}
    [] OTHER -> ReadmeBodies \cup {JNull}

\* an HTTP response: "ok" is 2xx with a JSON body, "http" is non-2xx, "parse" is 2xx
\* whose body is not JSON (response.json() rejects), "gql" is a 2xx GraphQL response
\* with a top-level errors array
Response(status, body) == [status |-> status, body |-> body]

Responses(key) ==
  {Response("ok", b) : b \in OkBodies(key)}
    \cup {Response("http", JNull), Response("parse", JNull)}
    \cup (IF key.api = "graphql" THEN {Response("gql", JNoItems)} ELSE {})

(***************************************************************************)
(* Return values and thrown errors                                         *)
(***************************************************************************)
Ret(v) == [threw |-> FALSE, value |-> v]
Threw == [threw |-> TRUE, value |-> <<>>]
ThrewJ == [threw |-> TRUE, value |-> JNull]
NoResult == [threw |-> FALSE, value |-> <<>>]

(***************************************************************************)
(* Normalizer and filters                                                  *)
(***************************************************************************)
\* a canonical item (GitHubItem) with the members the data-access layer reads
Item(id, state, updated_at, login, repository, type) ==
  [id |-> id, state |-> state, updated_at |-> updated_at, user |-> [login |-> login],
   repository |-> repository, type |-> type]

\* item.user?.login || 'unknown'
LoginOrUnknown(login) == IF login = <<>> THEN STR_unknown ELSE login

\* transformGitHubItem(item, type)
transformGitHubItem(item, type) ==
  LET repoName == IF item.repository_url # <<>> THEN Last(item.repository_url)
                  ELSE IF item.repository # "" THEN item.repository
                  ELSE ""
  IN Item(item.id, item.state, item.updated_at, LoginOrUnknown(item.login), repoName, type)

\* the inline mapping of a discussion node in fetchDiscussions
transformDiscussion(disc, repo) ==
  Item(parseDiscussionId(disc.node_id), IF disc.closed THEN "closed" ELSE "open",
       disc.updated_at, LoginOrUnknown(disc.login), repo, "discussion")

\* filterByUser without the two toLowerCase calls
filterByUser_caseSensitive(its, excludedUsers) ==
  IF excludedUsers = <<>> THEN its
  ELSE SelectSeq(its, LAMBDA item :
         ~ \E i \in 1..Len(excludedUsers) : excludedUsers[i] = item.user.login)

\* filterByUser(items) under config.excludedUsers
filterByUser(its, excludedUsers) ==
  IF excludedUsers = <<>> THEN its
  ELSE SelectSeq(its, LAMBDA item :
         LET username == toLowerCase(item.user.login)
         IN ~ \E i \in 1..Len(excludedUsers) : toLowerCase(excludedUsers[i]) = username)

\* the comparator of the final sort: (a, b) => getTime(b) - getTime(a)
byUpdatedDesc(a, b) == DateGetTime(b.updated_at) - DateGetTime(a.updated_at)

\* Array.prototype.sort is stable: x goes after every element that does not have to
\* come after it.  dir is 1 for the comparator as written and -1 for its negation.
RECURSIVE InsertSorted(_, _, _)
InsertSorted(sorted, x, dir) ==
  IF sorted = <<>> THEN <<x>>
  ELSE IF dir * byUpdatedDesc(Head(sorted), x) <= 0
       THEN <<Head(sorted)>> \o InsertSorted(Tail(sorted), x, dir)
       ELSE <<x>> \o sorted

RECURSIVE StableSort(_, _, _)
StableSort(todo, sorted, dir) ==
  IF todo = <<>> THEN sorted
  ELSE StableSort(Tail(todo), InsertSorted(sorted, Head(todo), dir), dir)

\* sortItems with the operands of the subtraction swapped
sortItems_ascending(its) == StableSort(its, <<>>, -1)

\* filteredItems.sort((a, b) => new Date(b.updated_at) - new Date(a.updated_at))
sortItems(its) == StableSort(its, <<>>, 1)

\* fetchAllItems without the repository filter
filterRepository_none(its, repository) == its

\* the repository filter of fetchAllItems; repository "" is undefined
filterRepository(its, repository) ==
  IF repository # "" /\ repository # "all"
  THEN SelectSeq(its, LAMBDA item : item.repository = repository)
  ELSE its

(***************************************************************************)
(* What one iteration of a per-repository loop does with the data the      *)
(* transport returned: [threw, items]                                      *)
(***************************************************************************)
TypeError == [threw |-> TRUE, items |-> <<>>]
Contributes(its) == [threw |-> FALSE, items |-> its]

\* issuesOfRepo without the pull_request filter
issuesOfRepo_unfiltered(data, repo) ==
  IF data.t # "array" THEN TypeError
  ELSE Contributes(MapSeq(data.elems,
         LAMBDA item : [transformGitHubItem(item, "issue") EXCEPT !.repository = repo]))

\* fetchIssues, per-repository path: issues.filter(...) then map and push
issuesOfRepo(data, repo) ==
  IF data.t # "array" THEN TypeError
  ELSE LET actualIssues == SelectSeq(data.elems, LAMBDA issue : ~ issue.pull_request)
       IN Contributes(MapSeq(actualIssues,
            LAMBDA item : [transformGitHubItem(item, "issue") EXCEPT !.repository = repo]))

\* fetchPullRequests, per-repository path
pullsOfRepo(data, repo) ==
  IF data.t # "array" THEN TypeError
  ELSE Contributes(MapSeq(data.elems,
         LAMBDA item : [transformGitHubItem(item, "pr") EXCEPT !.repository = repo]))

\* fetchDiscussions: if (result?.repository?.discussions?.nodes) { map and push }
discussionsOfRepo(data, repo) ==
  IF data.t = "object"
  THEN Contributes(MapSeq(data.elems, LAMBDA disc : transformDiscussion(disc, repo)))
  ELSE Contributes(<<>>)

\* the loop iteration without its try / catch: the error leaves the loop
loopBody_noCatch(accv, o, contrib) ==
  IF o.threw \/ contrib.threw
  THEN [threw |-> TRUE, acc |-> accv]
  ELSE [threw |-> FALSE, acc |-> accv \o contrib.items]

\* the try / catch (repoError) around one loop iteration: o is what the transport
\* returned or threw, contrib what the iteration made of it
loopBody(accv, o, contrib) ==
  IF o.threw \/ contrib.threw
  THEN [threw |-> FALSE, acc |-> accv]
  ELSE [threw |-> FALSE, acc |-> accv \o contrib.items]

\* result?.items on the search path: absent for null and for an object without items
HasItems(data) == data.t = "object"

\* fetchIssues / fetchPullRequests, search path, after the await; type is "issue" / "pr"
searchResult(o, type, excludedUsers) ==
  IF o.threw THEN Threw
  ELSE IF ~ HasItems(o.value) THEN Ret(<<>>)
  ELSE Ret(filterByUser(MapSeq(o.value.elems, LAMBDA item : transformGitHubItem(item, type)),
                        excludedUsers))

(***************************************************************************)
(* The outer try / catch of each public function                           *)
(***************************************************************************)
\* fetchIssues without its outer try / catch
fetchIssuesCatch_none(R) == R

\* fetchIssues: catch (error) { return [] }
fetchIssuesCatch(R) == IF R.threw THEN Ret(<<>>) ELSE R

\* fetchPullRequests: catch (error) { return [] }
fetchPullRequestsCatch(R) == IF R.threw THEN Ret(<<>>) ELSE R

\* fetchDiscussions: catch (error) { return [] }
fetchDiscussionsCatch(R) == IF R.threw THEN Ret(<<>>) ELSE R

\* getOrgRepositories after the await, with its catch; allowed is
\* config.allowedRepositories
getOrgRepositoriesResult(o, allowed) ==
  IF o.threw THEN Ret(<<>>)
  ELSE IF ~ HasItems(o.value) THEN Ret(<<>>)
  ELSE LET allRepos == SelectSeq(o.value.elems, LAMBDA name : name # "")
       IN IF Len(allowed) > 0
          THEN Ret(SelectSeq(allRepos, LAMBDA repo : \E i \in 1..Len(allowed) : allowed[i] = repo))
          ELSE Ret(allRepos)

\* fetchOrganization after the await, with its catch
fetchOrganizationResult(o) == IF o.threw THEN Ret(JNull) ELSE Ret(o.value)

(***************************************************************************)
(* atob on base64 characters                                               *)
(***************************************************************************)
\* the 6-bit value of a base64 character, -1 for any other character
Sextet(c) ==
  IF c >= 65 /\ c <= 90 THEN c - 65
  ELSE IF c >= 97 /\ c <= 122 THEN c - 71
  ELSE IF c >= 48 /\ c <= 57 THEN c + 4
  ELSE IF c = 43 THEN 62
  ELSE IF c = 47 THEN 63
  ELSE -1

\* content.replace(/\n/g, '')
stripNewlines(s) == SelectSeq(s, LAMBDA c : c # 10)

\* the bytes of one group of up to four base64 characters (padding removed)
GroupBytes(g) ==
  LET v == [i \in 1..Len(g) |-> Sextet(g[i])]
  IN IF Len(g) = 4
     THEN <<v[1] * 4 + v[2] \div 16, (v[2] % 16) * 16 + v[3] \div 4, (v[3] % 4) * 64 + v[4]>>
     ELSE IF Len(g) = 3
     THEN <<v[1] * 4 + v[2] \div 16, (v[2] % 16) * 16 + v[3] \div 4>>
     ELSE <<v[1] * 4 + v[2] \div 16>>

RECURSIVE DecodeGroups(_)
DecodeGroups(s) ==
  IF s = <<>> THEN <<>>
  ELSE IF Len(s) <= 4 THEN GroupBytes(s)
  ELSE GroupBytes(SubSeq(s, 1, 4)) \o DecodeGroups(SubSeq(s, 5, Len(s)))

\* atob(s): throws on a character outside the alphabet and on a length of 4n+1
atob(s) ==
  LET unpadded == SelectSeq(s, LAMBDA c : c # 61)
  IN IF (\E i \in 1..Len(unpadded) : Sextet(unpadded[i]) = -1) \/ Len(unpadded) % 4 = 1
     THEN ThrewJ
     ELSE Ret([t |-> "string", elems |-> DecodeGroups(unpadded)])

\* fetchReadme after the await, with its catch
fetchReadmeResult(o) ==
  IF o.threw THEN Ret(JNull)
  ELSE IF o.value.t = "null" THEN Ret(JNull)
  ELSE IF o.value.t = "base64"
       THEN LET decoded == atob(stripNewlines(o.value.elems))
            IN IF decoded.threw THEN Ret(JNull) ELSE decoded
       ELSE Ret([t |-> "string", elems |-> o.value.elems])

(***************************************************************************)
(* Transport: githubFetch and githubGraphQL, split at their await          *)
(***************************************************************************)
\* const cached = getCached(cacheKey); if (cached) return cached;
checkCacheFirst(c, key, t) ==
  LET g == getCached(c, key, t)
  IN [hit |-> Truthy(g.data), value |-> g.data, cache |-> g.cache]

\* githubFetch from the response on: throw on !response.ok and on a body that is not
\* JSON, else setCache and return
githubFetchFinish(c, key, resp, t) ==
  IF resp.status # "ok"
  THEN [threw |-> TRUE, value |-> JNull, cache |-> c]
  ELSE [threw |-> FALSE, value |-> resp.body, cache |-> setCache(c, key, resp.body, t)]

\* githubGraphQL that stores the partial data of a response with errors before it throws
githubGraphQLFinish_cachesPartial(c, key, resp, t) ==
  IF resp.status \in {"http", "parse"}
  THEN [threw |-> TRUE, value |-> JNull, cache |-> c]
  ELSE IF resp.status = "gql"
  THEN [threw |-> TRUE, value |-> JNull, cache |-> setCache(c, key, resp.body, t)]
  ELSE [threw |-> FALSE, value |-> resp.body, cache |-> setCache(c, key, resp.body, t)]

\* githubGraphQL from the response on: as githubFetch, and throw on result.errors
githubGraphQLFinish(c, key, resp, t) ==
  IF resp.status \in {"http", "parse"}
  THEN [threw |-> TRUE, value |-> JNull, cache |-> c]
  ELSE IF resp.status = "gql"
  THEN [threw |-> TRUE, value |-> JNull, cache |-> c]
  ELSE [threw |-> FALSE, value |-> resp.body, cache |-> setCache(c, key, resp.body, t)]

transportFinish(c, key, resp, t) ==
  IF key.api = "rest" THEN githubFetchFinish(c, key, resp, t)
  ELSE githubGraphQLFinish(c, key, resp, t)

\* fetch(...) called without await: the caller runs on
awaitFetch_notAwaited == "call"

\* const response = await fetch(...): the caller is suspended until the response
awaitFetch == "wait"

(***************************************************************************)
(* Control flow of the public functions between two transport calls        *)
(***************************************************************************)
Frame(pcv, stagev, reposv, idxv, accv, itemsv, resultv) ==
  [pc |-> pcv, stage |-> stagev, repos |-> reposv, idx |-> idxv, acc |-> accv,
   items |-> itemsv, result |-> resultv]

\* the public call returns R
Done(R, itemsv) == Frame("done", "none", <<>>, 1, <<>>, itemsv, R)

\* the conditionals of fetchAllItems without their tests of type
NextStage_ignoreType(after, type, enableDiscussions) ==
  LET afterPrs == IF enableDiscussions THEN "discussions" ELSE "none"
  IN CASE after = "start" -> "issues"
       [] after = "issues" -> "prs"
       [] after = "prs" -> afterPrs
       [] OTHER -> "none"

\* the three conditionals of fetchAllItems: the fetcher to run after `after`
NextStage(after, type, enableDiscussions) ==
  LET afterPrs == IF type \in {"all", "discussion"} /\ enableDiscussions
                  THEN "discussions" ELSE "none"
      afterIssues == IF type \in {"all", "pr"} THEN "prs" ELSE afterPrs
      afterStart == IF type \in {"all", "issue"} THEN "issues" ELSE afterIssues
  IN CASE after = "start" -> afterStart
       [] after = "issues" -> afterIssues
       [] after = "prs" -> afterPrs
       [] OTHER -> "none"

\* entry of fetchIssues / fetchPullRequests / fetchDiscussions with allow-list
\* `allowed`, up to its first transport call
StartStage(s, allowed, itemsv) ==
  IF s = "discussions" /\ Len(allowed) = 0
  THEN Frame("call", "repos", <<>>, 1, <<>>, itemsv, NoResult)
  ELSE Frame("call", s, allowed, 1, <<>>, itemsv, NoResult)

\* fetchAllItems from the return of the fetcher of `stagev` to the next transport
\* call or to its own return (repository filter and sort)
aggregatorContinue(optsv, stagev, itemsv, R) ==
  IF R.threw THEN Done(Threw, itemsv)
  ELSE LET its == itemsv \o R.value
           ns == NextStage(stagev, optsv.type, config.enableDiscussions)
       IN IF ns = "none"
          THEN Done(Ret(sortItems(filterRepository(its, optsv.repository))), its)
          ELSE StartStage(ns, config.allowedRepositories, its)

\* fetchAllItems up to its first transport call
aggregatorStart(optsv) ==
  LET ns == NextStage("start", optsv.type, config.enableDiscussions)
  IN IF ns = "none"
     THEN Done(Ret(sortItems(filterRepository(<<>>, optsv.repository))), <<>>)
     ELSE StartStage(ns, config.allowedRepositories, <<>>)

\* the fetcher of `stagev` returns R to its caller
fetcherReturn(fnv, optsv, stagev, itemsv, R) ==
  IF fnv = "fetchAllItems" THEN aggregatorContinue(optsv, stagev, itemsv, R)
  ELSE Done(R, itemsv)

\* a loop that stays on the repository whose request failed
nextRepo_retry(idxv, o) == IF o.threw THEN idxv ELSE idxv + 1

\* for (const repo of allowedRepos): the loop goes on to the next repository whatever
\* the iteration on the current one did
nextRepo(idxv, o) == idxv + 1

\* fetchIssues / fetchPullRequests from the return (or throw) o of the transport
resumeIssuesOrPrs(fnv, optsv, stagev, reposv, idxv, accv, itemsv, o) ==
  LET isIssues == stagev = "issues"
      catch(R) == IF isIssues THEN fetchIssuesCatch(R) ELSE fetchPullRequestsCatch(R)
  IN IF Len(reposv) > 0
     THEN LET contrib == IF o.threw THEN TypeError
                         ELSE IF isIssues THEN issuesOfRepo(o.value, reposv[idxv])
                         ELSE pullsOfRepo(o.value, reposv[idxv])
              lb == loopBody(accv, o, contrib)
          IN IF lb.threw THEN fetcherReturn(fnv, optsv, stagev, itemsv, catch(Threw))
             ELSE IF idxv < Len(reposv)
             THEN Frame("call", stagev, reposv, nextRepo(idxv, o), lb.acc, itemsv, NoResult)
             ELSE fetcherReturn(fnv, optsv, stagev, itemsv,
                                catch(Ret(filterByUser(lb.acc, config.excludedUsers))))
     ELSE fetcherReturn(fnv, optsv, stagev, itemsv,
            catch(searchResult(o, IF isIssues THEN "issue" ELSE "pr", config.excludedUsers)))

\* fetchDiscussions from the return (or throw) o of githubGraphQL
resumeDiscussions(fnv, optsv, reposv, idxv, accv, itemsv, o) ==
  LET contrib == IF o.threw THEN TypeError ELSE discussionsOfRepo(o.value, reposv[idxv])
      lb == loopBody(accv, o, contrib)
  IN IF lb.threw
     THEN fetcherReturn(fnv, optsv, "discussions", itemsv, fetchDiscussionsCatch(Threw))
     ELSE IF idxv < Len(reposv)
     THEN Frame("call", "discussions", reposv, nextRepo(idxv, o), lb.acc, itemsv, NoResult)
     ELSE fetcherReturn(fnv, optsv, "discussions", itemsv,
            fetchDiscussionsCatch(Ret(filterByUser(lb.acc, config.excludedUsers))))

\* getOrgRepositories from the return (or throw) o of githubFetch, and, inside
\* fetchDiscussions, the check of reposToFetch that follows
resumeRepos(fnv, optsv, itemsv, o) ==
  LET R == getOrgRepositoriesResult(o, config.allowedRepositories)
  IN IF fnv = "getOrgRepositories" THEN Done(R, itemsv)
     ELSE IF Len(R.value) = 0
     THEN fetcherReturn(fnv, optsv, "discussions", itemsv, fetchDiscussionsCatch(Ret(<<>>)))
     ELSE Frame("call", "discussions", R.value, 1, <<>>, itemsv, NoResult)

\* the running public call from the return (or throw) o of its transport call to its
\* next transport call or its return
resume(fnv, optsv, stagev, reposv, idxv, accv, itemsv, o) ==
  CASE stagev \in {"issues", "prs"} ->
         resumeIssuesOrPrs(fnv, optsv, stagev, reposv, idxv, accv, itemsv, o)
    [] stagev = "discussions" -> resumeDiscussions(fnv, optsv, reposv, idxv, accv, itemsv, o)
    [] stagev = "repos" -> resumeRepos(fnv, optsv, itemsv, o)
    [] stagev = "org" -> Done(fetchOrganizationResult(o), itemsv)
    [] OTHER -> Done(fetchReadmeResult(o), itemsv)

\* the cache key of the transport call the running call is about to make
currentKey(optsv, stagev, reposv, idxv) ==
  CASE stagev = "issues" ->
         IF Len(reposv) > 0
         THEN RestKey(Endpoint("issues", reposv[idxv], StateParam(optsv.state)))
         ELSE RestKey(Endpoint("search:issue", "", StateQuery(optsv.state)))
    [] stagev = "prs" ->
         IF Len(reposv) > 0
         THEN RestKey(Endpoint("pulls", reposv[idxv], StateParam(optsv.state)))
         ELSE RestKey(Endpoint("search:pr", "", StateQuery(optsv.state)))
    [] stagev = "discussions" -> GraphQLKey(reposv[idxv])
    [] stagev = "repos" -> RestKey(Endpoint("search/repositories", "", ""))
    [] stagev = "org" -> RestKey(Endpoint("orgs", "", ""))
    [] OTHER -> RestKey(Endpoint("readme", optsv.repo, ""))

(***************************************************************************)
(* Inputs                                                                  *)
(***************************************************************************)
RepoLists == {<<>>, <<"a", "b">>}

ExcludedLists == {<<>>, <<STR_BOT>>}

Configs ==
  [allowedRepositories : RepoLists, excludedUsers : ExcludedLists, enableDiscussions : BOOLEAN]

States == {"open", "all"}

Types == {"all", "issue", "pr", "discussion"}

\* FilterOptions.repository; "" is undefined
RepositoryOptions == {"", "all", "a"}

Opts(state, type, repository, allowedRepos, repo) ==
  [state |-> state, type |-> type, repository |-> repository,
   allowedRepos |-> allowedRepos, repo |-> repo]

Calls ==
  {[fn |-> "fetchAllItems", opts |-> Opts("open", ty, r, <<>>, "")] :
      ty \in Types, r \in RepositoryOptions}
    \cup {[fn |-> f, opts |-> Opts(st, "all", "", al, "")] :
      f \in {"fetchIssues", "fetchPullRequests"}, st \in States, al \in RepoLists}
    \cup {[fn |-> "fetchDiscussions", opts |-> Opts("open", "all", "", al, "")] : al \in RepoLists}
    \cup {[fn |-> f, opts |-> Opts("open", "all", "", <<>>, "")] :
      f \in {"getOrgRepositories", "fetchOrganization"}}
    \cup {[fn |-> "fetchReadme", opts |-> Opts("open", "all", "", <<>>, "a")]}

NoKey == RestKey(Endpoint("", "", ""))
\* the last cache or transport operation: its name, its key, whether the key was in
\* the cache (get) or the call was answered from it (transport), the status of the
\* response, whether it threw and what it returned
Op(name, key, hit, status, threw, ret) ==
  [name |-> name, key |-> key, hit |-> hit, status |-> status, threw |-> threw, ret |-> ret]
NoOp == Op("none", NoKey, FALSE, "", FALSE, JNull)

(***************************************************************************)
(* Spec: one public call.  The clock stands still during the call: no call *)
(* asks for the same cache key twice, so time passing inside it changes    *)
(* nothing it reads; expiry is exercised by SpecCache and SpecTransport.   *)
(***************************************************************************)
\* the frame of a process in which no public call is running
NoCall ==
  /\ pc = "idle"
  /\ fn = "none"
  /\ opts = Opts("open", "all", "", <<>>, "")
  /\ stage = "none"
  /\ repos = <<>>
  /\ idx = 1
  /\ acc = <<>>
  /\ items = <<>>
  /\ inflight = <<>>
  /\ httpLog = <<>>
  /\ served = <<>>
  /\ result = NoResult
  /\ op = NoOp
  /\ ticks = 0

\* The call starts either right after module load (empty cache) or with the entry an
\* earlier successful request for the issues of repository a stored at time 0, at the
\* last instant of its life.
WarmKey == RestKey(Endpoint("issues", "a", "open"))
WarmCache == setCache(EmptyCache, WarmKey, JArray(<<E4, E3, E2>>), 0)

Init ==
  /\ config \in Configs
  /\ \/ cache = EmptyCache /\ now = 0
     \/ cache = WarmCache /\ now = CACHE_TTL
  /\ NoCall

SetFrame(f) ==
  /\ pc' = f.pc
  /\ stage' = f.stage
  /\ repos' = f.repos
  /\ idx' = f.idx
  /\ acc' = f.acc
  /\ items' = f.items
  /\ result' = f.result

\* a caller invokes a public function; it runs up to its first transport call
Call ==
  /\ pc = "idle"
  /\ \E c \in Calls :
       /\ fn' = c.fn
       /\ opts' = c.opts
       /\ SetFrame(CASE c.fn = "fetchAllItems" -> aggregatorStart(c.opts)
                     [] c.fn = "fetchIssues" -> StartStage("issues", c.opts.allowedRepos, <<>>)
                     [] c.fn = "fetchPullRequests" -> StartStage("prs", c.opts.allowedRepos, <<>>)
                     [] c.fn = "fetchDiscussions" ->
                          StartStage("discussions", c.opts.allowedRepos, <<>>)
                     [] c.fn = "getOrgRepositories" ->
                          Frame("call", "repos", <<>>, 1, <<>>, <<>>, NoResult)
                     [] c.fn = "fetchOrganization" ->
                          Frame("call", "org", <<>>, 1, <<>>, <<>>, NoResult)
                     [] OTHER -> Frame("call", "readme", <<>>, 1, <<>>, <<>>, NoResult))
  /\ op' = Op("call", NoKey, FALSE, "", FALSE, JNull)
  /\ UNCHANGED <<config, cache, now, ticks, inflight, httpLog, served>>

\* the running call enters githubFetch / githubGraphQL: on a hit it goes on with the
\* cached value, on a miss it issues the HTTP request and is suspended
Request ==
  /\ pc = "call"
  /\ LET k == currentKey(opts, stage, repos, idx)
         e == checkCacheFirst(cache, k, now)
     IN /\ cache' = e.cache
        /\ IF e.hit
           THEN /\ op' = Op("return", k, TRUE, "", FALSE, e.value)
                /\ served' = Append(served,
                      [key |-> k, hit |-> TRUE, threw |-> FALSE, value |-> e.value])
                /\ SetFrame(resume(fn, opts, stage, repos, idx, acc, items, Ret(e.value)))
                /\ UNCHANGED <<inflight, httpLog>>
           ELSE /\ op' = Op("request", k, FALSE, "", FALSE, JNull)
                /\ inflight' = Append(inflight, k)
                /\ httpLog' = Append(httpLog, k)
                /\ pc' = awaitFetch
                /\ UNCHANGED <<stage, repos, idx, acc, items, result, served>>
  /\ UNCHANGED <<config, now, ticks, fn, opts>>

\* the response to the request in flight arrives: the transport throws or caches and
\* returns, and the call runs on to its next transport call or its return
Respond ==
  /\ pc = "wait"
  /\ inflight # <<>>
  /\ LET k == Head(inflight)
     IN \E resp \in Responses(k) :
          LET o == transportFinish(cache, k, resp, now)
          IN /\ cache' = o.cache
             /\ inflight' = Tail(inflight)
             /\ op' = Op("respond", k, FALSE, resp.status, o.threw, o.value)
             /\ served' = Append(served,
                   [key |-> k, hit |-> FALSE, threw |-> o.threw, value |-> o.value])
             /\ SetFrame(resume(fn, opts, stage, repos, idx, acc, items,
                                [threw |-> o.threw, value |-> o.value]))
  /\ UNCHANGED <<config, now, ticks, fn, opts, httpLog>>

Next == Call \/ Request \/ Respond

Spec == Init /\ [][Next]_vars

(***************************************************************************)
(* Properties of one public call (Spec)                                    *)
(***************************************************************************)
Range(s) == {s[i] : i \in 1..Len(s)}

RECURSIVE Flatten(_)
Flatten(ss) == IF ss = <<>> THEN <<>> ELSE Head(ss) \o Flatten(Tail(ss))

PerRepoFetchers == {"fetchIssues", "fetchPullRequests", "fetchDiscussions"}

SequenceFns == PerRepoFetchers \cup {"fetchAllItems", "getOrgRepositories"}

\* the items one finished transport call contributes: those of its response, normalised
\* for the endpoint it was made to; nothing when it threw or carried no list
ContributionOf(e) ==
  IF e.threw THEN <<>>
  ELSE CASE e.key.path = "issues" -> issuesOfRepo(e.value, e.key.repo).items
         [] e.key.path = "pulls" -> pullsOfRepo(e.value, e.key.repo).items
         [] e.key.path = "discussions" -> discussionsOfRepo(e.value, e.key.repo).items
         [] e.key.path = "search:issue" /\ e.value.t = "object" ->
              MapSeq(e.value.elems, LAMBDA item : transformGitHubItem(item, "issue"))
         [] e.key.path = "search:pr" /\ e.value.t = "object" ->
              MapSeq(e.value.elems, LAMBDA item : transformGitHubItem(item, "pr"))
         [] OTHER -> <<>>

\* everything fetched so far by the running call, in fetch order
FetchedItems == Flatten(MapSeq(served, ContributionOf))

IsLetter(c) == (c >= 65 /\ c <= 90) \/ (c >= 97 /\ c <= 122)

EqualIgnoringCase(a, b) ==
  /\ Len(a) = Len(b)
  /\ \A i \in 1..Len(a) :
       \/ a[i] = b[i]
       \/ IsLetter(a[i]) /\ IsLetter(b[i]) /\ (a[i] - b[i] = 32 \/ b[i] - a[i] = 32)

IsExcludedLogin(login) ==
  \E i \in 1..Len(config.excludedUsers) : EqualIgnoringCase(config.excludedUsers[i], login)

KeyOfFetcher(f, repo, st) ==
  CASE f = "fetchIssues" -> RestKey(Endpoint("issues", repo, st))
    [] f = "fetchPullRequests" -> RestKey(Endpoint("pulls", repo, st))
    [] OTHER -> GraphQLKey(repo)

\* C2: a per-repository fetcher called with a non-empty list does not throw, makes its
\* request for every repository of the list in list order whichever of them fail, and
\* returns exactly the user-filtered items of the repositories whose request succeeded,
\* in list order.
C2_FailedRepositorySkipped ==
  (pc = "done" /\ fn \in PerRepoFetchers /\ Len(opts.allowedRepos) > 0) =>
    /\ ~ result.threw
    /\ Len(served) = Len(opts.allowedRepos)
    /\ \A i \in 1..Len(served) :
         served[i].key = KeyOfFetcher(fn, opts.allowedRepos[i], opts.state)
    /\ result.value = SelectSeq(FetchedItems, LAMBDA item : ~ IsExcludedLogin(item.user.login))

\* C2 witness: the request for the first repository failed, the one for the second
\* succeeded and its items were returned
C2_Witness ==
  /\ pc = "done" /\ fn \in PerRepoFetchers /\ Len(opts.allowedRepos) = 2
  /\ Len(served) = 2
  /\ served[1].threw /\ ~ served[2].threw
  /\ Len(result.value) > 0

\* C3: no public function propagates an error, whatever the upstream answered: a call
\* whose every request failed returns an empty sequence, or null from
\* fetchOrganization / fetchReadme.
C3_NeverThrows ==
  pc = "done" =>
    /\ ~ result.threw
    /\ (fn \in {"fetchOrganization", "fetchReadme"} /\ (\A i \in 1..Len(served) : served[i].threw))
         => result.value = JNull
    /\ (fn \in SequenceFns /\ (\A i \in 1..Len(served) : served[i].threw))
         => Len(result.value) = 0

\* C3 witness: fetchAllItems has returned after every one of its six requests failed,
\* the last with a GraphQL errors payload
C3_Witness ==
  /\ pc = "done" /\ fn = "fetchAllItems"
  /\ Len(served) = 6
  /\ \A i \in 1..Len(served) : served[i].threw
  /\ op.status = "gql"
  /\ ~ result.threw /\ Len(result.value) = 0

FetcherOfKey(k) ==
  CASE k.path \in {"issues", "search:issue"} -> "issue"
    [] k.path \in {"pulls", "search:pr"} -> "pr"
    [] OTHER -> "discussion"

\* C4: fetchAllItems with type t in {issue, pr, discussion} makes only the transport
\* calls of the fetcher of t, collects only items of type t and returns only such items.
C4_OnlyRequestedType ==
  (fn = "fetchAllItems" /\ opts.type # "all") =>
    /\ \A i \in 1..Len(served) : FetcherOfKey(served[i].key) = opts.type
    /\ \A i \in 1..Len(httpLog) : FetcherOfKey(httpLog[i]) = opts.type
    /\ \A i \in 1..Len(items) : items[i].type = opts.type
    /\ pc = "done" => \A i \in 1..Len(result.value) : result.value[i].type = opts.type

\* C4 witness: fetchAllItems with type "issue" has returned items
C4_Witness ==
  /\ pc = "done" /\ fn = "fetchAllItems" /\ opts.type = "issue"
  /\ Len(result.value) >= 2

TimeOf(item) == DateGetTime(item.updated_at)

\* the elements of s grouped by time, latest group first, each group in the order of s
RECURSIVE GroupedByTimeDesc(_, _)
GroupedByTimeDesc(s, times) ==
  IF times = {} THEN <<>>
  ELSE LET latest == CHOOSE t \in times : \A u \in times : u <= t
       IN SelectSeq(s, LAMBDA x : TimeOf(x) = latest)
            \o GroupedByTimeDesc(s, times \ {latest})

\* C5: the sequence fetchAllItems returns is ordered by updated_at descending, and
\* items with equal updated_at keep the order they had in the concatenation of the
\* fetchers' results.
C5_SortedDescendingStable ==
  (pc = "done" /\ fn = "fetchAllItems" /\ ~ result.threw) =>
    LET out == result.value
        kept == SelectSeq(items, LAMBDA x : x \in Range(out))
    IN /\ \A i \in 1..(Len(out) - 1) : TimeOf(out[i]) >= TimeOf(out[i + 1])
       /\ out = GroupedByTimeDesc(kept, {TimeOf(x) : x \in Range(kept)})

\* C5 witness: the result holds two items of different types with the same updated_at
\* and differs from the order of the concatenation
C5_Witness ==
  /\ pc = "done" /\ fn = "fetchAllItems"
  /\ result.value # SelectSeq(items, LAMBDA x : x \in Range(result.value))
  /\ \E i, j \in 1..Len(result.value) :
       /\ i < j
       /\ TimeOf(result.value[i]) = TimeOf(result.value[j])
       /\ result.value[i].type # result.value[j].type

\* C6: with a non-empty excluded-user list no returned item has a login that equals an
\* excluded username ignoring case, and the three fetchers return every other fetched
\* item, in fetch order, on the per-repository and on the search path.
C6_ExcludedUsersDropped ==
  (pc = "done" /\ Len(config.excludedUsers) > 0 /\ ~ result.threw) =>
    /\ fn \in PerRepoFetchers \cup {"fetchAllItems"} =>
         \A i \in 1..Len(result.value) : ~ IsExcludedLogin(result.value[i].user.login)
    /\ fn \in PerRepoFetchers =>
         result.value = SelectSeq(FetchedItems, LAMBDA item : ~ IsExcludedLogin(item.user.login))

\* C6 witness: a fetcher dropped an item whose login differs in case from the excluded
\* username and kept another item
C6_Witness ==
  /\ pc = "done" /\ fn \in PerRepoFetchers /\ Len(config.excludedUsers) > 0
  /\ Len(result.value) > 0
  /\ \E i \in 1..Len(FetchedItems) :
       /\ IsExcludedLogin(FetchedItems[i].user.login)
       /\ FetchedItems[i].user.login \notin Range(config.excludedUsers)

RawById(id) == CHOOSE e \in RawEntries : e.id = id

\* C7 as claimed: on every fetch path fetchIssues never returns an item built from a raw
\* entry that carries a pull_request marker.
C7_NoPullRequestOnAnyPath ==
  (pc = "done" /\ fn = "fetchIssues") =>
    \A i \in 1..Len(result.value) : ~ RawById(result.value[i].id).pull_request

\* C7 amended: on the per-repository path (non-empty allow-list) fetchIssues never
\* returns an item built from a raw entry that carries a pull_request marker, and no
\* item of type "issue" that fetchAllItems returns under a non-empty configured
\* allow-list is built from one.
C7_NoPullRequestPerRepository ==
  /\ (pc = "done" /\ fn = "fetchIssues" /\ Len(opts.allowedRepos) > 0) =>
       \A i \in 1..Len(result.value) : ~ RawById(result.value[i].id).pull_request
  /\ (pc = "done" /\ fn = "fetchAllItems" /\ Len(config.allowedRepositories) > 0) =>
       \A i \in 1..Len(result.value) :
         result.value[i].type = "issue" => ~ RawById(result.value[i].id).pull_request

\* C7 witness: fetchIssues returned items on the per-repository path although a
\* response carried an entry with a pull_request marker
C7_Witness ==
  /\ pc = "done" /\ fn = "fetchIssues" /\ Len(opts.allowedRepos) > 0
  /\ Len(result.value) > 0
  /\ \E i \in 1..Len(served) :
       /\ ~ served[i].threw
       /\ \E j \in 1..Len(served[i].value.elems) : served[i].value.elems[j].pull_request

\* the names a finished repository search listed
ListedRepositories ==
  Flatten(MapSeq(served, LAMBDA e :
    IF e.key.path = "search/repositories" /\ ~ e.threw /\ e.value.t = "object"
    THEN SelectSeq(e.value.elems, LAMBDA name : name # "")
    ELSE <<>>))

\* the transport calls fetchAllItems makes for a type, a state and the configuration,
\* whatever the repository option
ExpectedKeys(type, st, cfg) ==
  LET allowed == cfg.allowedRepositories
      perRepo(path) == MapSeq(allowed, LAMBDA r : RestKey(Endpoint(path, r, StateParam(st))))
      search(path) == <<RestKey(Endpoint(path, "", StateQuery(st)))>>
      issueKeys == IF type \notin {"all", "issue"} THEN <<>>
                   ELSE IF Len(allowed) > 0 THEN perRepo("issues") ELSE search("search:issue")
      prKeys == IF type \notin {"all", "pr"} THEN <<>>
                ELSE IF Len(allowed) > 0 THEN perRepo("pulls") ELSE search("search:pr")
      discussionKeys ==
        IF type \notin {"all", "discussion"} \/ ~ cfg.enableDiscussions THEN <<>>
        ELSE IF Len(allowed) > 0 THEN MapSeq(allowed, GraphQLKey)
        ELSE <<RestKey(Endpoint("search/repositories", "", ""))>>
               \o MapSeq(ListedRepositories, GraphQLKey)
  IN issueKeys \o prKeys \o discussionKeys

\* C8: fetchAllItems with a repository r that is set and not "all" returns exactly the
\* fetched items whose repository is r; with repository unset or "all" it drops none;
\* and the transport calls it made are those of its type, state and configuration,
\* the same whatever r is.
C8_RepositoryFilteredAfterFetch ==
  (pc = "done" /\ fn = "fetchAllItems" /\ ~ result.threw) =>
    LET r == opts.repository
        out == result.value
        fetched == SelectSeq(FetchedItems, LAMBDA item : ~ IsExcludedLogin(item.user.login))
    IN /\ IF r # "" /\ r # "all"
          THEN /\ \A i \in 1..Len(out) : out[i].repository = r
               /\ \A i \in 1..Len(fetched) :
                    fetched[i].repository = r => fetched[i] \in Range(out)
               /\ Len(out) = Cardinality({i \in 1..Len(fetched) : fetched[i].repository = r})
          ELSE /\ Len(out) = Len(fetched)
               /\ Range(out) = Range(fetched)
       /\ MapSeq(served, LAMBDA e : e.key) = ExpectedKeys(opts.type, opts.state, config)

\* C8 witness: with repository "a" requested, items of another repository were fetched
\* and dropped and items of "a" returned
C8_Witness ==
  /\ pc = "done" /\ fn = "fetchAllItems" /\ opts.repository = "a"
  /\ Len(result.value) > 0
  /\ \E i \in 1..Len(items) : items[i].repository = "b"

StageRank(k) ==
  CASE k.path \in {"issues", "search:issue"} -> 1
    [] k.path \in {"pulls", "search:pr"} -> 2
    [] k.path = "search/repositories" -> 3
    [] OTHER -> 4

\* C10: at most one HTTP request of the call is in flight; a request is issued only
\* when every earlier one has been answered; the requests are issued in the order of the
\* transport calls, those of the issue fetch before those of the pull-request fetch
\* before those of the discussion fetch.
C10_OneRequestInFlight ==
  /\ Len(inflight) <= 1
  /\ MapSeq(SelectSeq(served, LAMBDA e : ~ e.hit), LAMBDA e : e.key) \o inflight = httpLog
  /\ pc = "wait" <=> Len(inflight) = 1
  /\ \A i, j \in 1..Len(httpLog) : i < j => StageRank(httpLog[i]) <= StageRank(httpLog[j])
  /\ (fn = "fetchAllItems" /\ Len(config.allowedRepositories) > 0) =>
       \E n \in 0..Len(ExpectedKeys(opts.type, opts.state, config)) :
         MapSeq(served, LAMBDA e : e.key) \o inflight
           = SubSeq(ExpectedKeys(opts.type, opts.state, config), 1, n)

\* C10 witness: the first pull-request request of fetchAllItems is in flight after both
\* issue requests were answered
C10_Witness ==
  /\ fn = "fetchAllItems" /\ pc = "wait"
  /\ Len(httpLog) = 3 /\ Len(served) = 2
  /\ StageRank(httpLog[2]) = 1 /\ StageRank(httpLog[3]) = 2
  /\ inflight = <<httpLog[3]>>

\* C12: within one call of a public function no upstream request is issued twice and
\* no transport call is made twice, also when a request failed: a per-repository
\* fetcher issues at most one request per repository of its list, the search path and
\* the single-endpoint functions issue at most one, and after a failed request the
\* call goes on to a different endpoint or returns.
C12_NoRetry ==
  /\ \A i, j \in 1..Len(httpLog) : i < j => httpLog[i] # httpLog[j]
  /\ \A i, j \in 1..Len(served) : i < j => served[i].key # served[j].key
  /\ \A i \in 1..Len(served) :
       served[i].threw =>
         /\ Cardinality({j \in 1..Len(httpLog) : httpLog[j] = served[i].key}) = 1
         /\ served[i].key \notin Range(inflight)
         /\ pc = "call" => currentKey(opts, stage, repos, idx) # served[i].key
  /\ (fn \in PerRepoFetchers \cup {"fetchIssues", "fetchPullRequests"}
        /\ Len(opts.allowedRepos) > 0) => Len(httpLog) <= Len(opts.allowedRepos)
  /\ (fn \in {"fetchIssues", "fetchPullRequests"} /\ Len(opts.allowedRepos) = 0)
       => Len(httpLog) <= 1
  /\ fn \in {"getOrgRepositories", "fetchOrganization", "fetchReadme"} => Len(httpLog) <= 1

\* C12 witness: fetchIssues has returned after the requests for both repositories of
\* its list failed, each issued once
C12_Witness ==
  /\ pc = "done" /\ fn = "fetchIssues" /\ opts.allowedRepos = <<"a", "b">>
  /\ Len(served) = 2 /\ served[1].threw /\ served[2].threw
  /\ httpLog = <<RestKey(Endpoint("issues", "a", StateParam(opts.state))),
                 RestKey(Endpoint("issues", "b", StateParam(opts.state)))>>

(***************************************************************************)
(* SpecCache: the cache alone, under every interleaving of put, get and    *)
(* clock advance                                                           *)
(***************************************************************************)
CacheKeys == {RestKey(Endpoint("issues", "a", "open")), GraphQLKey("a")}

callFrame == <<config, pc, fn, opts, stage, repos, idx, acc, items, inflight, httpLog,
               served, result>>

NoConfig == [allowedRepositories |-> <<>>, excludedUsers |-> <<>>, enableDiscussions |-> FALSE]

InitCache ==
  /\ config = NoConfig
  /\ cache = EmptyCache
  /\ now = 0
  /\ NoCall

CachePut ==
  /\ \E k \in CacheKeys : \E v \in OkBodies(k) :
       /\ cache' = setCache(cache, k, v, now)
       /\ op' = Op("put", k, FALSE, "", FALSE, v)
  /\ UNCHANGED <<now, ticks>>
  /\ UNCHANGED callFrame

CacheGet ==
  /\ \E k \in CacheKeys :
       LET g == getCached(cache, k, now)
       IN /\ cache' = g.cache
          /\ op' = Op("get", k, k \in DOMAIN cache, "", FALSE, g.data)
  /\ UNCHANGED <<now, ticks>>
  /\ UNCHANGED callFrame

\* time passes
ClockTick ==
  /\ ticks < MaxTicks
  /\ \E d \in TickSteps : now' = now + d
  /\ ticks' = ticks + 1
  /\ op' = Op("tick", NoKey, FALSE, "", FALSE, JNull)
  /\ UNCHANGED cache
  /\ UNCHANGED callFrame

NextCache == CachePut \/ CacheGet \/ ClockTick

SpecCache == InitCache /\ [][NextCache]_vars

\* C1: a get at time now on an entry stored at timestamp returns exactly the stored
\* value and leaves the cache as it is (timestamp included) when
\* now - timestamp <= 300000, and otherwise returns absent (null) and removes the
\* entry, leaving every other entry alone.
C1_GetWithinTtl ==
  [][\A k \in DOMAIN cache :
       (op'.name = "get" /\ op'.key = k) =>
         IF now - cache[k].timestamp <= 300000
         THEN op'.ret = cache[k].data /\ cache' = cache
         ELSE /\ op'.ret = JNull
              /\ k \notin DOMAIN cache'
              /\ DOMAIN cache' = (DOMAIN cache) \ {k}
              /\ \A j \in DOMAIN cache' : cache'[j] = cache[j]]_vars

\* C1 witness: a get has just returned a stored value at the boundary
\* now - timestamp = TTL, with the entry's timestamp older than the clock
C1_Witness ==
  /\ op.name = "get"
  /\ op.key \in DOMAIN cache
  /\ now - cache[op.key].timestamp = 300000
  /\ op.ret = cache[op.key].data
  /\ Truthy(op.ret)

(***************************************************************************)
(* SpecTransport: calls of githubFetch / githubGraphQL by any callers, the *)
(* responses in any order, and the clock                                   *)
(***************************************************************************)
\* requests in flight at once
MaxInflight == 2

TransportKeys == {RestKey(Endpoint("orgs", "", "")), GraphQLKey("a")}

RemoveAt(s, i) == SubSeq(s, 1, i - 1) \o SubSeq(s, i + 1, Len(s))

\* a caller enters the transport for key k: it returns the cached value, or issues
\* the HTTP request and waits
TransportCall ==
  /\ \E k \in TransportKeys :
       LET e == checkCacheFirst(cache, k, now)
       IN /\ cache' = e.cache
          /\ IF e.hit
             THEN /\ op' = Op("return", k, TRUE, "", FALSE, e.value)
                  /\ UNCHANGED inflight
             ELSE /\ Len(inflight) < MaxInflight
                  /\ inflight' = Append(inflight, k)
                  /\ op' = Op("request", k, FALSE, "", FALSE, JNull)
  /\ UNCHANGED <<config, now, ticks, pc, fn, opts, stage, repos, idx, acc, items,
                 httpLog, served, result>>

\* the response to one of the requests in flight arrives and its caller goes on
TransportRespond ==
  /\ \E i \in 1..Len(inflight) : \E resp \in Responses(inflight[i]) :
       LET o == transportFinish(cache, inflight[i], resp, now)
       IN /\ cache' = o.cache
          /\ inflight' = RemoveAt(inflight, i)
          /\ op' = Op("respond", inflight[i], FALSE, resp.status, o.threw, o.value)
  /\ UNCHANGED <<config, now, ticks, pc, fn, opts, stage, repos, idx, acc, items,
                 httpLog, served, result>>

NextTransport == TransportCall \/ TransportRespond \/ ClockTick

SpecTransport == InitCache /\ [][NextTransport]_vars

\* C9: whenever an unexpired entry exists under the request's cache key, the transport
\* issues no HTTP request and returns the stored value, whatever value a successful
\* request stored there.
C9_HitIssuesNoRequest ==
  [][\A k \in DOMAIN cache :
       (op'.name \in {"return", "request"} /\ op'.key = k
          /\ now - cache[k].timestamp <= CACHE_TTL)
         => (op'.name = "return" /\ op'.ret = cache[k].data /\ inflight' = inflight)]_vars

\* the key has no unexpired entry
NoLiveEntry(k) == k \notin DOMAIN cache \/ now - cache[k].timestamp > CACHE_TTL

\* the statuses of a failed response: non-2xx, a body that is not JSON, a GraphQL body
\* with a top-level errors array
FailureStatuses == {"http", "parse", "gql"}

\* a failed response makes its transport call throw and leaves the cache as it is
FailureWritesNothing ==
  (op'.name = "respond" /\ op'.status \in FailureStatuses)
    => (op'.threw /\ cache' = cache)

\* an entry appears or changes under a key only by a successful response to a request
\* for that key, and holds that response's value
EntryOnlyFromSuccess ==
  \A k \in DOMAIN cache' :
    (k \notin DOMAIN cache \/ cache'[k] # cache[k])
      => /\ op'.name = "respond" /\ op'.key = k
         /\ op'.status = "ok" /\ ~ op'.threw
         /\ cache'[k] = CacheEntry(op'.ret, now)

MaxCalls == 2

\* a caller enters the transport for key k
RaceCall ==
  /\ Len(served) + Len(inflight) < MaxCalls
  /\ \E k \in TransportKeys :
       LET e == checkCacheFirst(cache, k, now)
       IN /\ cache' = e.cache
          /\ IF e.hit
             THEN /\ op' = Op("return", k, TRUE, "", FALSE, e.value)
                  /\ served' = Append(served,
                        [key |-> k, hit |-> TRUE, threw |-> FALSE, value |-> e.value])
                  /\ UNCHANGED <<inflight, httpLog>>
             ELSE /\ Len(inflight) < MaxInflight
                  /\ inflight' = Append(inflight, k)
                  /\ httpLog' = Append(httpLog, k)
                  /\ op' = Op("request", k, FALSE, "", FALSE, JNull)
                  /\ UNCHANGED served
  /\ UNCHANGED <<config, now, ticks, pc, fn, opts, stage, repos, idx, acc, items, result>>

\* the response to one of the requests in flight arrives and its caller goes on
RaceRespond ==
  /\ \E i \in 1..Len(inflight) : \E resp \in Responses(inflight[i]) :
       LET o == transportFinish(cache, inflight[i], resp, now)
       IN /\ cache' = o.cache
          /\ inflight' = RemoveAt(inflight, i)
          /\ op' = Op("respond", inflight[i], FALSE, resp.status, o.threw, o.value)
          /\ served' = Append(served,
                [key |-> inflight[i], hit |-> FALSE, threw |-> o.threw, value |-> o.value])
  /\ UNCHANGED <<config, now, ticks, pc, fn, opts, stage, repos, idx, acc, items,
                 httpLog, result>>

NextRace == RaceCall \/ RaceRespond \/ ClockTick

SpecRace == InitCache /\ [][NextRace]_vars

\* the finished calls for key k that got a successful response, in the order their
\* responses were processed
Successes(k) == SelectSeq(served, LAMBDA e : e.key = k /\ ~ e.hit /\ ~ e.threw)

\* C11: a transport call that starts while its key has no unexpired entry misses and
\* issues an HTTP request, also while another request for the same key is in flight;
\* every successful response populates the cache with its own value, which its call
\* returns, whatever another call stored there before; so the entry under a key is
\* always the one written by the successful response processed last, and the cache
\* never holds a value that no successful response returned.
C11_LastWriteWins ==
  /\ [](\A k \in DOMAIN cache :
          /\ Successes(k) # <<>>
          /\ cache[k].data = Last(Successes(k)).value)
  /\ [][/\ \A k \in TransportKeys :
             (op'.name \in {"return", "request"} /\ op'.key = k /\ NoLiveEntry(k))
               => (op'.name = "request" /\ inflight' = Append(inflight, k))
        /\ (op'.name = "respond" /\ op'.status = "ok")
             => /\ op'.ret \in OkBodies(op'.key)
                /\ ~ op'.threw
                /\ cache' = [k \in (DOMAIN cache) \cup {op'.key} |->
                               IF k = op'.key THEN CacheEntry(op'.ret, now) ELSE cache[k]]]_vars

\* C11 witness: two calls for the same key were in flight together (the first response
\* was truthy and has not expired, so the second call, which missed, started before it
\* arrived), both got a successful response, the two values differ and the cache holds
\* the second
C11_Witness ==
  /\ ticks = 0
  /\ Len(served) = 2 /\ inflight = <<>>
  /\ served[1].key = served[2].key
  /\ ~ served[1].hit /\ ~ served[2].hit
  /\ ~ served[1].threw /\ ~ served[2].threw
  /\ Truthy(served[1].value)
  /\ served[1].value # served[2].value
  /\ httpLog = <<served[1].key, served[1].key>>
  /\ cache[served[2].key].data = served[2].value

====
